---- MODULE Spec2Model ----
(***************************************************************************)
(* pyservice: the request/reply service loop (Service.run in service.py   *)
(* and the older module-level service_main in pyservice.py), the command  *)
(* registry with its built-in commands, the metadata documents, and the   *)
(* two-phase client call of client.py.                                    *)
(*                                                                         *)
(* Python str values and ZeroMQ frames are TLA+ strings.  Every text the  *)
(* model uses is ASCII, whose UTF-8 encoding is the same byte sequence;   *)
(* InvalidUtf8 holds the frames bytes.decode() rejects.                   *)
(***************************************************************************)
EXTENDS Integers, Sequences, FiniteSets, TLC

VARIABLES
    impl,           \* which copy of the loop runs: "Service" or "service_main"
    overridden,     \* the concrete service overrides name() and description()
    command_map,    \* the registry, an insertion-ordered dict: a sequence of entries
    registrations,  \* register_command calls made after construction
    socket,         \* the REP socket: "none" before run, then "bound"
    pc,             \* position of the loop
    state,          \* the loop's State variable
    message,        \* the frames of the request being served; <<>> when none is
    exc,            \* the exception the try body raised for that request
    invoked,        \* the handler the try body called for that request
    out,            \* the frames of the reply being sent
    reply,          \* the frames of the last reply sent; <<>> once a request arrives
    ops,            \* the transport operations performed on the socket, in order
    exit,           \* how the loop ended
    cpc,            \* position of the client's call(): "idle", "probe", "invoke", "done"
    request,        \* the command and the arguments call() was given
    csocket,        \* the REQ socket of the call
    sockets,        \* REQ sockets created so far
    sent,           \* the requests sent on csocket, each with the deadline of its receive
    arrivals,       \* what the service side did after each request: frames and latency
    cmetadata,      \* the Metadata the probe decoded
    result,         \* the outcome of call(): a returned list or a raised exception
    tasks,          \* concurrent callers: the position and the socket of each one's call()
    ncalls,         \* calls of call() started by the concurrent callers
    socktab,        \* every REQ socket those calls created, in order of creation
    subject,        \* a Metadata or an Arguments value handed to to_dictionary
    encoded,        \* a dictionary: to_dictionary's result, or one read from a document
    decoded,        \* what from_dictionary made of the dictionary
    stderr,         \* the 'Illegal state' reports printed to stderr: the states reported
    faults          \* transport operations of the loop that raised

svars == <<impl, overridden, command_map, registrations, socket, pc, state,
           message, exc, invoked, out, reply, ops, exit>>

cvars == <<cpc, request, csocket, sockets, sent, arrivals, cmetadata, result>>

kvars == <<tasks, ncalls, socktab>>

dvars == <<subject, encoded, decoded>>

fvars == <<stderr, faults>>

vars == <<svars, cvars, kvars, dvars, fvars>>

-----------------------------------------------------------------------------
(* Bounds of the model *)

MaxRequests == 2        \* requests one run of the loop receives
MaxRegistrations == 1   \* register_command calls after construction
MaxCalls == 1           \* calls the client makes
MaxTasks == 2           \* callers that run call() concurrently
MaxSockets == 3         \* calls the concurrent callers start in total
MaxDescriptors == 2     \* Argument descriptors in an Arguments list
MaxFaults == 2          \* transport operations that raise in one run of the loop

-----------------------------------------------------------------------------
(* Enumerations *)

DEFAULT == 300
LONG == 30000
Timeout == {DEFAULT, LONG}

ERROR_UNKNOWN_COMMAND == "ERROR_UNKNOWN_COMMAND"
ERROR_UNCATEGORISED == "ERROR_UNCATEGORISED"
ErrorCode == {ERROR_UNKNOWN_COMMAND, ERROR_UNCATEGORISED}

RECEIVING == "RECEIVING"
SENDING == "SENDING"
State == {SENDING, RECEIVING}

\* A byte string that is not valid UTF-8.
BadBytes == "\\xff"
InvalidUtf8 == {BadBytes}

-----------------------------------------------------------------------------
(* Exceptions and results of calls *)

NoExc == [type |-> "", msg |-> "", code |-> ""]

\* An exception of class type whose str() is msg.
Exc(type, msg) == [type |-> type, msg |-> msg, code |-> ""]

\* ServiceException(error_code, message): args[0] is the message.
ServiceException(code, msg) == [type |-> "ServiceException", msg |-> msg, code |-> code]

\* UnknownCommandException of the pyservice package, a ServiceException whose
\* code is ERROR_UNKNOWN_COMMAND and whose message is the offending name.
UnknownCommand(command) ==
    [type |-> "UnknownCommandException", msg |-> command, code |-> ERROR_UNKNOWN_COMMAND]

\* UnknownCommandException of pyservice.py: an Exception whose message is
\* 'unknown command ' followed by the argument.
LegacyUnknownCommand(command) == Exc("UnknownCommandException", "unknown command " \o command)

FatalServiceError(msg) == Exc("FatalServiceError", msg)

IsServiceException(e) == e.type \in {"ServiceException", "UnknownCommandException"}

Ok(v) == [kind |-> "ok", value |-> v, exc |-> NoExc, called |-> ""]
Raise(e) == [kind |-> "raise", value |-> <<>>, exc |-> e, called |-> ""]

\* What a handler returns when it is a coroutine function: a coroutine object.
Coroutine == <<"<coroutine>">>

-----------------------------------------------------------------------------
(* Metadata *)

Argument(name, description) == [name |-> name, description |-> description]

NoneInner == [tag |-> "None"]

\* Arguments(*arguments)
Arguments(arguments) ==
    IF Len(arguments) = 0
    THEN [inner |-> NoneInner]
    ELSE [inner |-> [tag |-> "list", items |-> arguments]]

ArgumentsNone == Arguments(<<>>)

variable_length(argument) ==
    [inner |-> [tag |-> "VariableLengthArguments", inner |-> argument]]

Metadata(name, description, timeout, arguments, returns, errors) ==
    [name |-> name, description |-> description, timeout |-> timeout,
     arguments |-> arguments, returns |-> returns, errors |-> errors]

\* A registry entry whose 'metadata' is None.
NoMetadata == [tag |-> "None"]

IsMetadata(m) == "name" \in DOMAIN m

Argument_to_dictionary(a) == [name |-> a.name, description |-> a.description]

Arguments_to_dictionary(a) ==
    IF a.inner.tag = "None" THEN [type |-> "none"]
    ELSE IF a.inner.tag = "VariableLengthArguments"
    THEN [type |-> "variable_length", argument |-> Argument_to_dictionary(a.inner.inner)]
    ELSE [type |-> "list",
          arguments |-> [i \in 1..Len(a.inner.items) |->
                            Argument_to_dictionary(a.inner.items[i])]]

Metadata_to_dictionary(m) ==
    [name |-> m.name, description |-> m.description, timeout |-> m.timeout,
     arguments |-> Arguments_to_dictionary(m.arguments),
     returns |-> m.returns, errors |-> m.errors]

-----------------------------------------------------------------------------
(* json.dumps of the dictionaries above, with Python's default separators *)

JsonString(s) == "\"" \o s \o "\""

DumpsArgument(d) ==
    "{\"name\": " \o JsonString(d.name) \o ", \"description\": "
        \o JsonString(d.description) \o "}"

RECURSIVE DumpsArgumentList(_)
DumpsArgumentList(items) ==
    IF Len(items) = 0 THEN ""
    ELSE IF Len(items) = 1 THEN DumpsArgument(items[1])
    ELSE DumpsArgument(items[1]) \o ", " \o DumpsArgumentList(Tail(items))

DumpsArguments(d) ==
    IF d.type = "none" THEN "{\"type\": \"none\"}"
    ELSE IF d.type = "variable_length"
    THEN "{\"type\": \"variable_length\", \"argument\": " \o DumpsArgument(d.argument) \o "}"
    ELSE "{\"type\": \"list\", \"arguments\": [" \o DumpsArgumentList(d.arguments) \o "]}"

json_dumps(d) ==
    "{\"name\": " \o JsonString(d.name)
        \o ", \"description\": " \o JsonString(d.description)
        \o ", \"timeout\": " \o ToString(d.timeout)
        \o ", \"arguments\": " \o DumpsArguments(d.arguments)
        \o ", \"returns\": " \o JsonString(d.returns)
        \o ", \"errors\": " \o JsonString(d.errors) \o "}"

-----------------------------------------------------------------------------
(* The registry *)

Entry(name, handler, metadata) == [name |-> name, handler |-> handler, metadata |-> metadata]

\* A registry entry whose 'handler' is None.
NoHandler == "None"

Keys(cmap) == [i \in 1..Len(cmap) |-> cmap[i].name]

HasKey(cmap, name) == \E i \in 1..Len(cmap) : cmap[i].name = name

Get(cmap, name) == cmap[CHOOSE i \in 1..Len(cmap) : cmap[i].name = name]

\* A faulty variant of register_command: the entry is always appended.
register_command_Append(cmap, command, handler, metadata) ==
    Append(cmap, Entry(command, handler, metadata))

\* self.command_map[command] = {...}: a dict keeps the position of a key it
\* already holds and appends a new one.
register_command(cmap, command, handler, metadata) ==
    IF HasKey(cmap, command)
    THEN [i \in 1..Len(cmap) |->
            IF cmap[i].name = command THEN Entry(command, handler, metadata) ELSE cmap[i]]
    ELSE Append(cmap, Entry(command, handler, metadata))

\* Service.__init__: an empty registry, then the four built-in commands.
RegisterCommonCommands ==
    LET m1 == register_command(<<>>, "describe", "describe",
                Metadata("describe", "Returns the description of the service.", DEFAULT,
                         ArgumentsNone, "The description of the service.", "None"))
        m2 == register_command(m1, "list", "list",
                Metadata("list", "Lists the available service commands.", DEFAULT,
                         ArgumentsNone, "A list of available service commands.", "None"))
        m3 == register_command(m2, "help", "help_screen",
                Metadata("help", "Describes the available service commands.", DEFAULT,
                         ArgumentsNone,
                         "A list of strings describing the available service commands.",
                         "*RuntimeError* - metadata is missing or invalid."))
    IN  register_command(m3, "metadata", "metadata",
                Metadata("metadata", "Returns metadata for the provided list of commands.",
                         DEFAULT,
                         variable_length(Argument("command",
                                                  "The command to retrieve metadata for.")),
                         "A list of metadata for the commmands in JSON",
                         "*ValueError* - arguments are empty. *RuntimeError* - metadata is missing."))

\* pyservice.py: the module-level __command_map.  Its Metadata keeps the
\* arguments as a documentation string.
LegacyCommandMap ==
    <<Entry("help", "help_screen",
            Metadata("help", "Describes available service commands.", DEFAULT, "None",
                     "A list of strings describing the available service commands.",
                     "*RuntimeError* - metadata is missing or invalid.")),
      Entry("metadata", "metadata",
            Metadata("metadata", "Describes the given command.", DEFAULT,
                     "A list of commands to describe.",
                     "A list of metadata for the commmands in JSON",
                     "*ValueError* - arguments are empty. *RuntimeError* - metadata is missing."))>>

\* The commands a program registers with pyservice.py's register().
LegacyUserEntries ==
    {Entry("echo", "echo",
           Metadata("echo", "Echoes its arguments.", DEFAULT, "Any strings.",
                    "The arguments.", "None")),
     Entry("boom", "boom",
           Metadata("boom", "Always fails.", LONG, "None", "Nothing.", "RuntimeError")),
     Entry("bare", NoHandler, NoMetadata)}

\* The commands a concrete service registers; its describe replaces the
\* built-in one, and alias is registered with the Metadata of echo.
UserEntries ==
    {Entry("echo", "echo",
           Metadata("echo", "Echoes its arguments.", DEFAULT,
                    variable_length(Argument("x", "any")), "The arguments.", "None")),
     Entry("slow", "slow",
           Metadata("slow", "Answers late.", LONG,
                    Arguments(<<Argument("n", "a number")>>), "ok", "None")),
     Entry("boom", "boom",
           Metadata("boom", "Always fails.", DEFAULT, ArgumentsNone, "Nothing.", "RuntimeError")),
     Entry("fatal", "fatal",
           Metadata("fatal", "Stops the service.", DEFAULT, ArgumentsNone, "Nothing.",
                    "FatalServiceError")),
     Entry("deny", "deny",
           Metadata("deny", "Refuses.", DEFAULT, ArgumentsNone, "Nothing.", "ServiceException")),
     Entry("later", "async_echo",
           Metadata("later", "Echoes asynchronously.", DEFAULT,
                    variable_length(Argument("x", "any")), "The arguments.", "None")),
     Entry("describe", "echo",
           Metadata("describe", "Describes this service at length.", LONG, ArgumentsNone,
                    "The long description.", "None")),
     Entry("alias", "echo",
           Metadata("echo", "Echoes its arguments.", DEFAULT,
                    variable_length(Argument("x", "any")), "The arguments.", "None")),
     Entry("bare", NoHandler, NoMetadata)}

-----------------------------------------------------------------------------
(* The built-in commands *)

\* Service.describe: name() and description() raise NotImplementedError
\* unless the subclass overrides them.
describe(ov) ==
    IF ov THEN Ok(<<"svc", "A service.">>) ELSE Raise(Exc("NotImplementedError", ""))

list(cmap) == Ok(Keys(cmap))

HelpArguments(a) ==
    IF a.inner.tag = "None" THEN "None\\\n"
    ELSE IF a.inner.tag = "VariableLengthArguments"
    THEN "This function accepts one or more of the following argument:\\\n"
            \o "*" \o a.inner.inner.name \o "* - " \o a.inner.inner.description \o "\\\n"
    ELSE LET RECURSIVE Lines(_)
             Lines(items) ==
                IF Len(items) = 0 THEN ""
                ELSE "*" \o items[1].name \o "* - " \o items[1].description \o "\\\n"
                        \o Lines(Tail(items))
         IN  Lines(a.inner.items)

HelpString(command, metadata) ==
    "**" \o command \o "**\\\n" \o metadata.description \o "\\\n"
        \o (IF metadata.timeout > 300 THEN "Can take a long time to run.\\\n" ELSE "")
        \o "\\\n**Arguments**\\\n" \o HelpArguments(metadata.arguments)
        \o "\\\n**Returns**\\\n" \o metadata.returns \o "\\\n\\\n"
        \o "**Errors**\\\n" \o metadata.errors

LegacyHelpString(command, metadata) ==
    "**" \o command \o "**\\\n" \o metadata.description \o "\\\n"
        \o (IF metadata.timeout > 300 THEN "Can take a long time to run.\\\n" ELSE "")
        \o "\\\n**Arguments**\\\n" \o metadata.arguments \o "\\\n\\\n"
        \o "**Returns**\\\n" \o metadata.returns \o "\\\n\\\n"
        \o "**Errors**\\\n" \o metadata.errors

help_screen(im, cmap) ==
    LET invalid == {i \in 1..Len(cmap) : ~IsMetadata(cmap[i].metadata)}
    IN  IF invalid = {}
        THEN Ok([i \in 1..Len(cmap) |->
                    IF im = "Service" THEN HelpString(cmap[i].name, cmap[i].metadata)
                    ELSE LegacyHelpString(cmap[i].name, cmap[i].metadata)])
        ELSE LET first == CHOOSE i \in invalid : \A j \in invalid : i <= j
             IN  Raise(Exc("RuntimeError",
                           "metadata missing or invalid for " \o cmap[first].name))

\* __metadata_impl.  pyservice.py raises UnknownCommandException(command) with
\* command the None that the lookup returned.
MetadataImpl(im, cmap, function_name) ==
    IF HasKey(cmap, function_name)
    THEN IF IsMetadata(Get(cmap, function_name).metadata)
         THEN Ok(Get(cmap, function_name).metadata)
         ELSE Raise(Exc("RuntimeError", "metadata missing for " \o function_name))
    ELSE IF im = "Service"
         THEN Raise(UnknownCommand(function_name))
         ELSE Raise(LegacyUnknownCommand("None"))

LegacyDumps(m) ==
    "{\"name\": " \o JsonString(m.name)
        \o ", \"description\": " \o JsonString(m.description)
        \o ", \"timeout\": " \o ToString(m.timeout)
        \o ", \"arguments\": " \o JsonString(m.arguments)
        \o ", \"returns\": " \o JsonString(m.returns)
        \o ", \"errors\": " \o JsonString(m.errors) \o "}"

MetadataDocument(im, m) ==
    IF im = "Service" THEN json_dumps(Metadata_to_dictionary(m)) ELSE LegacyDumps(m)

\* A faulty variant of metadata: no check of len(arguments), so an empty
\* request gives an empty list of documents.
metadata_NoCheck(im, cmap, arguments) ==
    LET failing == {i \in 1..Len(arguments) :
                        MetadataImpl(im, cmap, arguments[i]).kind = "raise"}
    IN  IF failing = {}
        THEN Ok([i \in 1..Len(arguments) |->
                    MetadataDocument(im, MetadataImpl(im, cmap, arguments[i]).value)])
        ELSE LET first == CHOOSE i \in failing : \A j \in failing : i <= j
             IN  MetadataImpl(im, cmap, arguments[first])

\* A faulty variant of metadata: one document, that of the first name.
metadata_FirstOnly(im, cmap, arguments) ==
    IF Len(arguments) > 0
    THEN LET m == MetadataImpl(im, cmap, arguments[1])
         IN  IF m.kind = "raise" THEN m ELSE Ok(<<MetadataDocument(im, m.value)>>)
    ELSE Raise(Exc("ValueError", "Expected one or more commands as arguments"))

\* The metadata command: the list comprehension stops at the first name
\* whose lookup raises.
metadata(im, cmap, arguments) ==
    IF Len(arguments) > 0
    THEN LET failing == {i \in 1..Len(arguments) :
                            MetadataImpl(im, cmap, arguments[i]).kind = "raise"}
         IN  IF failing = {}
             THEN Ok([i \in 1..Len(arguments) |->
                        MetadataDocument(im, MetadataImpl(im, cmap, arguments[i]).value)])
             ELSE LET first == CHOOSE i \in failing : \A j \in failing : i <= j
                  IN  MetadataImpl(im, cmap, arguments[first])
    ELSE Raise(Exc("ValueError", "Expected one or more commands as arguments"))

\* handler(arguments), for the built-in handlers and the registered ones.
RunHandler(im, handler, arguments, cmap, ov) ==
    CASE handler = "describe"    -> describe(ov)
      [] handler = "list"        -> list(cmap)
      [] handler = "help_screen" -> help_screen(im, cmap)
      [] handler = "metadata"    -> metadata(im, cmap, arguments)
      [] handler = "echo"        -> Ok(arguments)
      [] handler = "slow"        -> Ok(<<"ok">>)
      [] handler = "boom"        -> Raise(Exc("RuntimeError", "kaboom"))
      [] handler = "fatal"       -> Raise(FatalServiceError("disk gone"))
      [] handler = "deny"        -> Raise(ServiceException(ERROR_UNCATEGORISED, "denied"))
      [] handler = "async_echo"  -> Ok(Coroutine)

-----------------------------------------------------------------------------
(* The service loop *)

\* Service.__ok / ok: the frames of a success reply.
OkFrames(array) == <<"OK">> \o array

\* A faulty variant of ErrorFrames: the code frame is left out.
ErrorFramesNoCode(code, text) == <<"ERROR", text>>

\* Service.__error / error: the frames of an error reply.
ErrorFrames(code, text) == <<"ERROR", code, text>>

\* A faulty variant of UncategorisedText: the class of Exception() is named
\* instead of the class of e.
UncategorisedTextOfBase(e) == "builtins.Exception: " \o e.msg

\* The text of the generic branch:
\* f'{type(Exception()).__module__}.{type(e).__name__}: {str(e)}'
UncategorisedText(e) == "builtins." \o e.type \o ": " \o e.msg

Called(r, handler) == [r EXCEPT !.called = handler]

\* The try body after the receive: decode, look the command up, call the
\* handler and build the success reply.  st is the loop state at that point.
TryBody(im, cmap, ov, msg, st) ==
    IF \E i \in 1..Len(msg) : msg[i] \in InvalidUtf8
    THEN Raise(Exc("UnicodeDecodeError", "'utf-8' codec can't decode byte 0xff"))
    ELSE LET command == msg[1]
             arguments == Tail(msg)
         IN  IF ~HasKey(cmap, command)
             THEN IF im = "Service"
                  THEN Raise(UnknownCommand(command))
                  ELSE Raise(LegacyUnknownCommand("unknown command " \o command))
             ELSE LET handler == Get(cmap, command).handler
                  IN  IF handler # NoHandler
                      THEN LET response == RunHandler(im, handler, arguments, cmap, ov)
                           IN  IF response.kind = "raise"
                               THEN Called(response, handler)
                               ELSE IF st # SENDING
                               THEN Called(Raise(Exc("StateException", st)), handler)
                               ELSE IF response.value = Coroutine
                               THEN Called(Raise(Exc("TypeError",
                                        "'coroutine' object is not iterable")), handler)
                               ELSE Called(Ok(OkFrames(response.value)), handler)
                      ELSE Raise(Exc("RuntimeError",
                                     "handler missing or not valid for " \o command))

\* A faulty variant of Classify: no clause for FatalServiceError, so the
\* generic clause catches it.
ClassifyNoFatal(im, e) ==
    IF e.type = "KeyboardInterrupt" THEN "break"
    ELSE IF e.type = "StateException" THEN "exit"
    ELSE IF im = "Service" /\ IsServiceException(e) THEN "service"
    ELSE IF im = "service_main" /\ e.type = "UnknownCommandException" THEN "unknown"
    ELSE "generic"

\* The except clause that catches e, in the order the clauses are written.
Classify(im, e) ==
    IF e.type = "KeyboardInterrupt" THEN "break"
    ELSE IF e.type = "StateException" THEN "exit"
    ELSE IF im = "Service" /\ IsServiceException(e) THEN "service"
    ELSE IF im = "service_main" /\ e.type = "UnknownCommandException" THEN "unknown"
    ELSE IF im = "Service" /\ e.type = "FatalServiceError" THEN "fatal"
    ELSE "generic"

\* The error reply an except clause sends.
ExceptFrames(branch, e) ==
    CASE branch = "service" -> ErrorFrames(e.code, e.msg)
      [] branch = "unknown" -> ErrorFrames(ERROR_UNKNOWN_COMMAND, "unknown command")
      [] branch = "generic" -> ErrorFrames(ERROR_UNCATEGORISED, UncategorisedText(e))

Received == Len(SelectSeq(ops, LAMBDA o : o = "recv"))

\* Requests a client can send: a command frame and argument frames.
CommandFrames ==
    {"describe", "list", "help", "metadata", "echo", "slow", "boom", "fatal", "deny",
     "later", "bare", "nope", BadBytes}
ArgumentLists ==
    {<<>>, <<"echo">>, <<"nope">>, <<"echo", "nope">>, <<"slow", "echo">>,
     <<"metadata", "help">>}
Requests == {<<c>> \o a : c \in CommandFrames, a \in ArgumentLists}

NoSocket == [id |-> 0, open |-> FALSE, linger |-> -1, connected |-> FALSE, rcvtimeo |-> -1]

NoResult == [kind |-> "none", value |-> <<>>, exc |-> NoExc, called |-> ""]

\* The coroutines that run call() side by side on one event loop.
Tasks == 1..MaxTasks

\* A task that is not inside call().
IdleTask == [pc |-> "idle", call |-> 0, sock |-> 0]

\* No value: the subject or the dictionary is not there (yet).
Nothing == [kind |-> "none"]

\* No socket, no request, no call under way, nothing printed.
Idle ==
    /\ impl \in {"Service", "service_main"}
    /\ overridden \in BOOLEAN
    /\ (impl = "service_main" => overridden)
    /\ socket = "none"
    /\ pc = "idle"
    /\ state = RECEIVING
    /\ message = <<>>
    /\ exc = NoExc
    /\ invoked = ""
    /\ out = <<>>
    /\ reply = <<>>
    /\ ops = <<>>
    /\ exit = "running"
    /\ cpc = "idle"
    /\ request = <<>>
    /\ csocket = NoSocket
    /\ sockets = 0
    /\ sent = <<>>
    /\ arrivals = <<>>
    /\ cmetadata = NoMetadata
    /\ result = NoResult
    /\ tasks = [t \in Tasks |-> IdleTask]
    /\ ncalls = 0
    /\ socktab = <<>>
    /\ stderr = <<>>
    /\ faults = 0

\* The program after construction: the registry with its built-in commands,
\* no socket, no call under way.
Constructed ==
    /\ Idle
    /\ command_map = IF impl = "Service" THEN RegisterCommonCommands ELSE LegacyCommandMap
    /\ registrations = 0

Init ==
    /\ Constructed
    /\ subject = Nothing
    /\ encoded = Nothing
    /\ decoded = NoResult

\* register_command / register, called before run or, for the coroutine
\* Service.run, by another task while the loop is suspended in an await.
RegisterCommand ==
    /\ registrations < MaxRegistrations
    /\ UNCHANGED <<cvars, kvars, dvars, fvars>>
    /\ IF impl = "Service" THEN pc \in {"idle", "recv", "send_ok", "send_err"}
                           ELSE pc = "idle"
    /\ \E e \in (IF impl = "Service" THEN UserEntries ELSE LegacyUserEntries) :
            command_map' = register_command(command_map, e.name, e.handler, e.metadata)
    /\ registrations' = registrations + 1
    /\ UNCHANGED <<impl, overridden, socket, pc, state, message, exc, invoked, out,
                   reply, ops, exit>>

\* run / service_main up to the loop: bind the socket, state = RECEIVING.
Run ==
    /\ pc = "idle"
    /\ UNCHANGED <<cvars, kvars, dvars, fvars>>
    /\ socket' = "bound"
    /\ state' = RECEIVING
    /\ pc' = "recv"
    /\ UNCHANGED <<impl, overridden, command_map, registrations, message, exc, invoked,
                   out, reply, ops, exit>>

\* A faulty variant of Receive: the handler is awaited, and a registration
\* by another task lands between the lookup and the handler's completion.
ReceiveInterleaved ==
    /\ pc = "recv"
    /\ state = RECEIVING
    /\ Received < MaxRequests
    /\ \E msg \in Requests, e \in UserEntries :
        LET r == TryBody(impl, command_map, overridden, msg, SENDING)
        IN  /\ r.kind = "ok"
            /\ command_map' = register_command(command_map, e.name, e.handler, e.metadata)
            /\ message' = msg
            /\ reply' = <<>>
            /\ ops' = Append(ops, "recv")
            /\ state' = SENDING
            /\ exc' = r.exc
            /\ invoked' = r.called
            /\ out' = r.value
            /\ pc' = "send_ok"
    /\ UNCHANGED <<impl, overridden, registrations, socket, exit>>
    /\ UNCHANGED <<cvars, kvars, dvars, fvars>>

\* One pass through the try statement, from the receive to the await of the
\* reply's send (or to the end of the loop).
Receive ==
    /\ pc = "recv"
    /\ UNCHANGED <<cvars, kvars, dvars, faults>>
    /\ Received < MaxRequests
    /\ UNCHANGED <<impl, overridden, command_map, registrations, socket>>
    /\ IF state # RECEIVING
       THEN \* raise StateException(state); print; exit(1)
            /\ pc' = "stopped"
            /\ exit' = "exit1"
            /\ exc' = Exc("StateException", state)
            /\ stderr' = Append(stderr, state)
            /\ UNCHANGED <<state, message, invoked, out, reply, ops>>
       ELSE \E msg \in Requests :
            LET r == TryBody(impl, command_map, overridden, msg, SENDING)
                branch == Classify(impl, r.exc)
            IN  /\ message' = msg
                /\ reply' = <<>>
                /\ ops' = Append(ops, "recv")
                /\ state' = SENDING
                /\ exc' = r.exc
                /\ invoked' = r.called
                /\ stderr' = IF r.kind # "ok" /\ branch = "exit"
                             THEN Append(stderr, r.exc.msg) ELSE stderr
                /\ IF r.kind = "ok"
                   THEN /\ out' = r.value
                        /\ pc' = "send_ok"
                        /\ exit' = exit
                   ELSE IF branch = "exit"
                   THEN /\ pc' = "stopped"
                        /\ exit' = "exit1"
                        /\ out' = out
                   ELSE IF branch = "fatal"
                   THEN /\ pc' = "stopped"
                        /\ exit' = "raised"
                        /\ out' = out
                   ELSE /\ out' = ExceptFrames(branch, r.exc)
                        /\ pc' = "send_err"
                        /\ exit' = exit

\* A faulty variant of SendOk: the success reply is sent and the state is
\* left at SENDING.
SendOkKeepsState ==
    /\ pc = "send_ok"
    /\ UNCHANGED <<cvars, kvars, dvars, fvars>>
    /\ ops' = Append(ops, "send")
    /\ reply' = out
    /\ pc' = "recv"
    /\ message' = <<>> /\ exc' = NoExc /\ invoked' = "" /\ out' = <<>>
    /\ UNCHANGED <<impl, overridden, command_map, registrations, socket, state, exit>>

\* await self.__ok(response) completes; state = RECEIVING.
SendOk ==
    /\ pc = "send_ok"
    /\ UNCHANGED <<cvars, kvars, dvars, fvars>>
    /\ ops' = Append(ops, "send")
    /\ reply' = out
    /\ state' = RECEIVING
    /\ pc' = "recv"
    /\ message' = <<>> /\ exc' = NoExc /\ invoked' = "" /\ out' = <<>>
    /\ UNCHANGED <<impl, overridden, command_map, registrations, socket, exit>>

\* A faulty variant of SendError: the error reply is sent and the state is
\* left at SENDING.
SendErrorKeepsState ==
    /\ pc = "send_err"
    /\ UNCHANGED <<cvars, kvars, dvars, fvars>>
    /\ ops' = Append(ops, "send")
    /\ reply' = out
    /\ pc' = "recv"
    /\ message' = <<>> /\ exc' = NoExc /\ invoked' = "" /\ out' = <<>>
    /\ UNCHANGED <<impl, overridden, command_map, registrations, socket, state, exit>>

\* await self.__error(code, message) completes; state = RECEIVING.
SendError ==
    /\ pc = "send_err"
    /\ UNCHANGED <<cvars, kvars, dvars, faults>>
    /\ IF state = SENDING
       THEN /\ ops' = Append(ops, "send")
            /\ reply' = out
            /\ state' = RECEIVING
            /\ stderr' = stderr
       ELSE /\ stderr' = Append(stderr, state)
            /\ UNCHANGED <<ops, reply, state>>
    /\ pc' = "recv"
    /\ message' = <<>> /\ exc' = NoExc /\ invoked' = "" /\ out' = <<>>
    /\ UNCHANGED <<impl, overridden, command_map, registrations, socket, exit>>

\* KeyboardInterrupt inside the try statement: break.
Interrupt ==
    /\ pc \in {"recv", "send_ok"}
    /\ UNCHANGED <<cvars, kvars, dvars, fvars>>
    /\ pc' = "stopped"
    /\ exit' = "break"
    /\ UNCHANGED <<impl, overridden, command_map, registrations, socket, state, message,
                   exc, invoked, out, reply, ops>>

Next ==
    \/ RegisterCommand
    \/ Run
    \/ Receive
    \/ SendOk
    \/ SendError
    \/ Interrupt

Spec == Init /\ [][Next]_vars

-----------------------------------------------------------------------------
(* The service loop over a transport whose operations can raise *)

\* What a transport operation raises: zmq.error.ZMQError, an Exception.
ZMQError == Exc("ZMQError", "Context was terminated")

\* A faulty variant of ReceiveFails: the except clause sends its error reply
\* without looking at the state.
ReceiveFailsReplies ==
    /\ pc = "recv"
    /\ state = RECEIVING
    /\ faults < MaxFaults
    /\ faults' = faults + 1
    /\ ops' = Append(ops, "send")
    /\ reply' = ExceptFrames(Classify(impl, ZMQError), ZMQError)
    /\ state' = RECEIVING
    /\ UNCHANGED <<impl, overridden, command_map, registrations, socket, pc,
                   message, exc, invoked, out, exit, stderr>>
    /\ UNCHANGED <<cvars, kvars, dvars>>

\* The receive raises: state is still RECEIVING, the generic clause catches
\* the exception, finds the state is not SENDING, prints 'Illegal state' and
\* falls through to the next iteration, which receives again.
ReceiveFails ==
    /\ pc = "recv"
    /\ state = RECEIVING
    /\ faults < MaxFaults
    /\ faults' = faults + 1
    /\ IF Classify(impl, ZMQError) \in {"service", "unknown", "generic"}
       THEN IF state = SENDING
            THEN /\ ops' = Append(ops, "send")
                 /\ reply' = ExceptFrames(Classify(impl, ZMQError), ZMQError)
                 /\ state' = RECEIVING
                 /\ stderr' = stderr
            ELSE /\ stderr' = Append(stderr, state)
                 /\ UNCHANGED <<ops, reply, state>>
       ELSE UNCHANGED <<ops, reply, state, stderr>>
    /\ UNCHANGED <<impl, overridden, command_map, registrations, socket, pc,
                   message, exc, invoked, out, exit>>
    /\ UNCHANGED <<cvars, kvars, dvars>>

\* The send of the success reply raises: state is still SENDING, the generic
\* clause catches the exception and goes on to send an error reply.
SendOkFails ==
    /\ pc = "send_ok"
    /\ faults < MaxFaults
    /\ faults' = faults + 1
    /\ exc' = ZMQError
    /\ out' = ExceptFrames(Classify(impl, ZMQError), ZMQError)
    /\ pc' = "send_err"
    /\ UNCHANGED <<impl, overridden, command_map, registrations, socket, state,
                   message, invoked, reply, ops, exit, stderr>>
    /\ UNCHANGED <<cvars, kvars, dvars>>

\* A faulty variant of SendErrorFails: the exception raised by the error
\* send is caught and the loop goes on to its next iteration.
SendErrorFailsCaught ==
    /\ pc = "send_err"
    /\ state = SENDING
    /\ faults < MaxFaults
    /\ faults' = faults + 1
    /\ exc' = NoExc
    /\ pc' = "recv"
    /\ state' = RECEIVING
    /\ message' = <<>> /\ invoked' = "" /\ out' = <<>>
    /\ UNCHANGED <<impl, overridden, command_map, registrations, socket,
                   reply, ops, exit, stderr>>
    /\ UNCHANGED <<cvars, kvars, dvars>>

\* The send of the error reply raises inside the except clause: no clause of
\* the same try statement catches it, so it leaves run / service_main.
SendErrorFails ==
    /\ pc = "send_err"
    /\ state = SENDING
    /\ faults < MaxFaults
    /\ faults' = faults + 1
    /\ exc' = ZMQError
    /\ pc' = "stopped"
    /\ exit' = "raised"
    /\ UNCHANGED <<impl, overridden, command_map, registrations, socket, state,
                   message, invoked, out, reply, ops, stderr>>
    /\ UNCHANGED <<cvars, kvars, dvars>>

\* The names a concrete service registers before it calls run, in the order
\* of its calls.
SetupNames(im) ==
    IF im = "Service" THEN <<"echo", "slow", "boom", "fatal", "deny", "later", "bare">>
                      ELSE <<"echo", "boom", "bare">>

\* register_command / register called once for each of the names.
RECURSIVE RegisterAll(_, _, _)
RegisterAll(cmap, entries, names) ==
    IF names = <<>> THEN cmap
    ELSE LET e == CHOOSE x \in entries : x.name = Head(names)
         IN  RegisterAll(register_command(cmap, e.name, e.handler, e.metadata),
                         entries, Tail(names))

\* A service that has registered its commands and is about to call run.
FaultInit ==
    /\ Idle
    /\ command_map = IF impl = "Service"
                     THEN RegisterAll(RegisterCommonCommands, UserEntries, SetupNames(impl))
                     ELSE RegisterAll(LegacyCommandMap, LegacyUserEntries, SetupNames(impl))
    /\ registrations = Len(SetupNames(impl))
    /\ subject = Nothing
    /\ encoded = Nothing
    /\ decoded = NoResult

\* The loop over a transport whose receive and sends can raise.
FaultNext ==
    \/ Run
    \/ Receive
    \/ SendOk
    \/ SendError
    \/ Interrupt
    \/ ReceiveFails
    \/ SendOkFails
    \/ SendErrorFails

FaultSpec == FaultInit /\ [][FaultNext]_vars

------------------------------------------------------------------------

-----------------------------------------------------------------------------
(* Decoding a metadata document: json.loads and from_dictionary *)

MetadataOf(name) == (CHOOSE e \in UserEntries : e.name = name).metadata

\* The Metadata records a Service can hold: the built-in ones and those of
\* the commands a concrete service registers.
RegisteredMetadata ==
    {RegisterCommonCommands[i].metadata : i \in 1..Len(RegisterCommonCommands)}
        \cup {e.metadata : e \in {u \in UserEntries : IsMetadata(u.metadata)}}

\* The dictionaries with all six keys that the documents of the model hold:
\* those of registered commands, and one whose timeout is no Timeout value.
ShapedDictionaries ==
    {Metadata_to_dictionary(m) : m \in RegisteredMetadata}
        \cup {[Metadata_to_dictionary(MetadataOf("echo")) EXCEPT !.timeout = 999]}

\* Other JSON objects and the dictionaries json.loads gives for them.
JsonTable ==
    <<[text |-> "{\"name\": \"echo\"}",
       value |-> [name |-> "echo"]],
      [text |-> "{\"name\": \"echo\", \"description\": \"d\", \"timeout\": 300, \"arguments\": {\"type\": \"tuple\"}, \"returns\": \"r\", \"errors\": \"e\"}",
       value |-> [name |-> "echo", description |-> "d", timeout |-> 300,
                  arguments |-> [type |-> "tuple"], returns |-> "r", errors |-> "e"]],
      [text |-> "{\"name\": \"echo\", \"description\": \"d\", \"timeout\": 300, \"arguments\": {\"type\": \"variable_length\"}, \"returns\": \"r\", \"errors\": \"e\"}",
       value |-> [name |-> "echo", description |-> "d", timeout |-> 300,
                  arguments |-> [type |-> "variable_length"], returns |-> "r",
                  errors |-> "e"]]>>

json_loads(text) ==
    LET shaped == {d \in ShapedDictionaries : json_dumps(d) = text}
        listed == {i \in 1..Len(JsonTable) : JsonTable[i].text = text}
    IN  IF shaped # {} THEN Ok(CHOOSE d \in shaped : TRUE)
        ELSE IF listed # {} THEN Ok(JsonTable[CHOOSE i \in listed : TRUE].value)
        ELSE Raise(Exc("JSONDecodeError", "Expecting value: line 1 column 1 (char 0)"))

KeyError(key) == Exc("KeyError", "'" \o key \o "'")

Argument_from_dictionary(d) ==
    IF "name" \notin DOMAIN d THEN Raise(KeyError("name"))
    ELSE IF "description" \notin DOMAIN d THEN Raise(KeyError("description"))
    ELSE Ok(Argument(d.name, d.description))

\* A faulty variant of Arguments_from_dictionary: 'variable_length' is
\* decoded as a list of one descriptor.
Arguments_from_dictionary_Flat(d) ==
    IF "type" \notin DOMAIN d THEN Raise(KeyError("type"))
    ELSE IF d.type = "none" THEN Ok(Arguments(<<>>))
    ELSE IF d.type = "variable_length"
    THEN IF "argument" \notin DOMAIN d THEN Raise(KeyError("argument"))
         ELSE LET a == Argument_from_dictionary(d.argument)
              IN  IF a.kind = "raise" THEN a ELSE Ok(Arguments(<<a.value>>))
    ELSE IF d.type = "list"
    THEN IF "arguments" \notin DOMAIN d THEN Raise(KeyError("arguments"))
         ELSE LET items == d.arguments
                  failing == {i \in 1..Len(items) :
                                Argument_from_dictionary(items[i]).kind = "raise"}
              IN  IF failing = {}
                  THEN Ok(Arguments([i \in 1..Len(items) |->
                                        Argument_from_dictionary(items[i]).value]))
                  ELSE Argument_from_dictionary(
                            items[CHOOSE i \in failing : \A j \in failing : i <= j])
    ELSE Raise(Exc("AssertionError", "Expected code to be unreachable, but got: '"
                                        \o d.type \o "'"))

Arguments_from_dictionary(d) ==
    IF "type" \notin DOMAIN d THEN Raise(KeyError("type"))
    ELSE IF d.type = "none" THEN Ok(Arguments(<<>>))
    ELSE IF d.type = "variable_length"
    THEN IF "argument" \notin DOMAIN d THEN Raise(KeyError("argument"))
         ELSE LET a == Argument_from_dictionary(d.argument)
              IN  IF a.kind = "raise" THEN a ELSE Ok(variable_length(a.value))
    ELSE IF d.type = "list"
    THEN IF "arguments" \notin DOMAIN d THEN Raise(KeyError("arguments"))
         ELSE LET items == d.arguments
                  failing == {i \in 1..Len(items) :
                                Argument_from_dictionary(items[i]).kind = "raise"}
              IN  IF failing = {}
                  THEN Ok(Arguments([i \in 1..Len(items) |->
                                        Argument_from_dictionary(items[i]).value]))
                  ELSE Argument_from_dictionary(
                            items[CHOOSE i \in failing : \A j \in failing : i <= j])
    ELSE Raise(Exc("AssertionError", "Expected code to be unreachable, but got: '"
                                        \o d.type \o "'"))

\* A faulty variant of Metadata_from_dictionary: the timeout is taken as it
\* is, with no conversion to a Timeout.
Metadata_from_dictionary_AnyTimeout(d) ==
    IF "name" \notin DOMAIN d THEN Raise(KeyError("name"))
    ELSE IF "description" \notin DOMAIN d THEN Raise(KeyError("description"))
    ELSE IF "timeout" \notin DOMAIN d THEN Raise(KeyError("timeout"))
    ELSE IF "arguments" \notin DOMAIN d THEN Raise(KeyError("arguments"))
    ELSE LET a == Arguments_from_dictionary(d.arguments)
         IN  IF a.kind = "raise" THEN a
             ELSE IF "returns" \notin DOMAIN d THEN Raise(KeyError("returns"))
             ELSE IF "errors" \notin DOMAIN d THEN Raise(KeyError("errors"))
             ELSE Ok(Metadata(d.name, d.description, d.timeout, a.value,
                              d.returns, d.errors))

\* Metadata.from_dictionary: the keyword arguments are evaluated in order.
Metadata_from_dictionary(d) ==
    IF "name" \notin DOMAIN d THEN Raise(KeyError("name"))
    ELSE IF "description" \notin DOMAIN d THEN Raise(KeyError("description"))
    ELSE IF "timeout" \notin DOMAIN d THEN Raise(KeyError("timeout"))
    ELSE IF d.timeout \notin Timeout
    THEN Raise(Exc("ValueError", ToString(d.timeout) \o " is not a valid Timeout"))
    ELSE IF "arguments" \notin DOMAIN d THEN Raise(KeyError("arguments"))
    ELSE LET a == Arguments_from_dictionary(d.arguments)
         IN  IF a.kind = "raise" THEN a
             ELSE IF "returns" \notin DOMAIN d THEN Raise(KeyError("returns"))
             ELSE IF "errors" \notin DOMAIN d THEN Raise(KeyError("errors"))
             ELSE Ok(Metadata(d.name, d.description, d.timeout, a.value,
                              d.returns, d.errors))

-----------------------------------------------------------------------------
(* to_dictionary and from_dictionary applied to chosen values *)

Descriptors == {Argument("x", "any"), Argument("n", "a number")}

DescriptorLists == UNION {[1..k -> Descriptors] : k \in 1..MaxDescriptors}

\* The values the constructors of Arguments build: Arguments.none(),
\* Arguments.variable_length(a), Arguments(a1, ..., ak).
ArgumentShapes ==
    {ArgumentsNone}
        \cup {variable_length(a) : a \in Descriptors}
        \cup {Arguments(l) : l \in DescriptorLists}

MetadataRecords ==
    {Metadata(n, "d", t, a, "r", "e") : n \in {"echo", "slow"}, t \in Timeout,
                                        a \in ArgumentShapes}

Subjects ==
    {[kind |-> "Metadata", value |-> m] : m \in MetadataRecords}
        \cup {[kind |-> "Arguments", value |-> a] : a \in ArgumentShapes}

\* Integers a document can carry as its timeout, and tags as its arguments.type.
DocumentTimeouts == {0, 299, 300, 301, 999, 30000, 30001}
DocumentTags == {"none", "tuple", "List", ""}

\* Dictionaries json.loads hands to from_dictionary without a to_dictionary
\* before: every key is there, the timeout and the arguments.type vary.
Dictionaries ==
    {[kind |-> "dict", of |-> "Metadata",
      value |-> [name |-> "echo", description |-> "d", timeout |-> t,
                 arguments |-> [type |-> g], returns |-> "r", errors |-> "e"]] :
        t \in DocumentTimeouts, g \in DocumentTags}
        \cup {[kind |-> "dict", of |-> "Arguments", value |-> [type |-> g]] :
                g \in DocumentTags}

CodecInit ==
    /\ Constructed
    /\ impl = "Service"
    /\ overridden
    /\ decoded = NoResult
    /\ \/ subject \in Subjects /\ encoded = Nothing
       \/ subject = Nothing /\ encoded \in Dictionaries

\* subject.to_dictionary()
Encode ==
    /\ subject # Nothing
    /\ encoded = Nothing
    /\ encoded' = [kind |-> "dict", of |-> subject.kind,
                   value |-> IF subject.kind = "Metadata"
                             THEN Metadata_to_dictionary(subject.value)
                             ELSE Arguments_to_dictionary(subject.value)]
    /\ UNCHANGED <<svars, cvars, kvars, fvars, subject, decoded>>

\* Metadata.from_dictionary(encoded) or Arguments.from_dictionary(encoded)
Decode ==
    /\ encoded # Nothing
    /\ decoded = NoResult
    /\ decoded' = IF encoded.of = "Metadata"
                  THEN Metadata_from_dictionary(encoded.value)
                  ELSE Arguments_from_dictionary(encoded.value)
    /\ UNCHANGED <<svars, cvars, kvars, fvars, subject, encoded>>

CodecNext ==
    \/ Encode
    \/ Decode

CodecSpec == CodecInit /\ [][CodecNext]_vars

-----------------------------------------------------------------------------
(* The client: call, __metadata_impl, __call_impl *)

\* socket.rcvtimeo of the probe.
ProbeRcvtimeo == 300

\* client.ServiceException(error_code, reason)
ClientServiceException(code, reason) ==
    [type |-> "ServiceException", msg |-> reason, code |-> code]

ProtocolException(msg) == Exc("ProtocolException", msg)

TimeoutException(rcvtimeo) ==
    Exc("TimeoutException", "no response from service after " \o ToString(rcvtimeo) \o " ms")

\* A faulty variant of DecodeResponse: an ERROR reply is read without
\* counting its frames, and anything else is taken for a success.
DecodeResponseLoose(response) ==
    IF Len(response) > 1 /\ response[1] = "ERROR"
    THEN Raise(ClientServiceException(response[2], response[Len(response)]))
    ELSE Ok(IF Len(response) > 0 THEN Tail(response) ELSE <<>>)

\* A faulty variant of DecodeResponse: a three-frame ERROR reply is raised as
\* a ServiceException whatever its code frame is.
DecodeResponseOneClass(response) ==
    IF Len(response) > 0
    THEN IF response[1] = "OK"
         THEN IF \E i \in 2..Len(response) : response[i] \in InvalidUtf8
              THEN Raise(Exc("UnicodeDecodeError", "'utf-8' codec can't decode byte 0xff"))
              ELSE Ok(Tail(response))
         ELSE IF response[1] = "ERROR"
         THEN IF Len(response) = 3
              THEN IF response[2] \in InvalidUtf8 \/ response[3] \in InvalidUtf8
                   THEN Raise(Exc("UnicodeDecodeError",
                                  "'utf-8' codec can't decode byte 0xff"))
                   ELSE Raise(ClientServiceException(response[2], response[3]))
              ELSE Raise(ProtocolException("invalid error response"))
         ELSE Raise(ProtocolException("invalid response"))
    ELSE Raise(ProtocolException("empty response"))

\* __call_impl after the receive: the reply's frames to a list or an exception.
DecodeResponse(response) ==
    IF Len(response) > 0
    THEN IF response[1] = "OK"
         THEN IF \E i \in 2..Len(response) : response[i] \in InvalidUtf8
              THEN Raise(Exc("UnicodeDecodeError", "'utf-8' codec can't decode byte 0xff"))
              ELSE Ok(Tail(response))
         ELSE IF response[1] = "ERROR"
         THEN IF Len(response) = 3
              THEN IF response[2] \in InvalidUtf8 \/ response[3] \in InvalidUtf8
                   THEN Raise(Exc("UnicodeDecodeError",
                                  "'utf-8' codec can't decode byte 0xff"))
                   ELSE IF response[2] = ERROR_UNKNOWN_COMMAND
                   THEN Raise(LegacyUnknownCommand(response[3]))
                   ELSE Raise(ClientServiceException(response[2], response[3]))
              ELSE Raise(ProtocolException("invalid error response"))
         ELSE Raise(ProtocolException("invalid response"))
    ELSE Raise(ProtocolException("empty response"))

\* A faulty variant of call_impl: the receive waits without a deadline.
call_impl_NoDeadline(sock, arrival) == DecodeResponse(arrival.frames)

\* __call_impl after the send: recv_multipart raises zmq.error.Again when no
\* reply arrives within socket.rcvtimeo milliseconds.
call_impl(sock, arrival) ==
    IF arrival.latency > sock.rcvtimeo
    THEN Raise(TimeoutException(sock.rcvtimeo))
    ELSE DecodeResponse(arrival.frames)

\* A faulty variant of metadata_impl: a failed probe falls back to the
\* metadata of a command with the default timeout.
metadata_impl_Fallback(sock, arrival) ==
    LET response == call_impl(sock, arrival)
    IN  IF response.kind = "raise" \/ Len(response.value) = 0
        THEN Ok(MetadataOf("echo"))
        ELSE LET j == json_loads(response.value[1])
             IN  IF j.kind = "raise" THEN Ok(MetadataOf("echo"))
                 ELSE Metadata_from_dictionary(j.value)

\* __metadata_impl after the send of the probe.
metadata_impl(sock, arrival) ==
    LET response == call_impl(sock, arrival)
    IN  IF response.kind = "raise" THEN response
        ELSE IF Len(response.value) = 0
        THEN Raise(ProtocolException("invalid metadata response"))
        ELSE LET j == json_loads(response.value[1])
             IN  IF j.kind = "raise" THEN j ELSE Metadata_from_dictionary(j.value)

\* A faulty variant of InvokeRcvtimeo: the deadline of the probe is kept.
InvokeRcvtimeoKept(m) == ProbeRcvtimeo

\* socket.rcvtimeo = metadata.timeout.value
InvokeRcvtimeo(m) == m.timeout

\* [command.encode()] + [arg.encode() for arg in arguments]
RequestFrames(command, arguments) == <<command>> \o arguments

Document(name) == json_dumps(Metadata_to_dictionary(MetadataOf(name)))

\* What can come back on the REQ socket: the replies the service loop builds,
\* and frames of a peer that does not keep to the protocol.
ReplyFrames ==
    {<<"OK", Document("echo")>>,
     <<"OK", Document("slow")>>,
     <<"OK", Document("boom"), Document("echo")>>,
     <<"OK">>,
     <<"OK", "a", "b">>,
     <<"OK", json_dumps([Metadata_to_dictionary(MetadataOf("echo")) EXCEPT !.timeout = 999])>>,
     <<"OK", JsonTable[1].text>>,
     <<"OK", JsonTable[2].text>>,
     <<"OK", JsonTable[3].text>>,
     <<"OK", BadBytes>>,
     <<>>,
     <<"NOPE", "x">>,
     <<BadBytes>>,
     <<"ERROR">>,
     <<"ERROR", "X">>,
     <<"ERROR", "a", "b", "c">>,
     <<"ERROR", ERROR_UNKNOWN_COMMAND, "nope">>,
     <<"ERROR", ERROR_UNCATEGORISED, "builtins.RuntimeError: kaboom">>,
     <<"ERROR", "ERROR_CUSTOM", "m">>,
     <<"ERROR", BadBytes, "m">>}

\* Milliseconds from the send of a request to the arrival of its reply.
Latencies == {100, 1000, 40000}

Arrivals == [frames : ReplyFrames, latency : Latencies]

ClientCommands == {"echo", "slow", "nope", "metadata"}
ClientArguments == {<<>>, <<"echo">>, <<"a", "b">>}

\* The client starts next to a freshly constructed Service.
ClientInit ==
    /\ Init
    /\ impl = "Service"
    /\ overridden

\* call() up to the await of the probe's reply: a new REQ socket, linger 0,
\* connect, rcvtimeo 300, the metadata request sent.
Call ==
    /\ cpc = "idle"
    /\ sockets < MaxCalls
    /\ UNCHANGED <<svars, kvars, dvars, fvars>>
    /\ \E c \in ClientCommands, a \in ClientArguments :
            request' = [command |-> c, arguments |-> a]
    /\ sockets' = sockets + 1
    /\ csocket' = [id |-> sockets + 1, open |-> TRUE, linger |-> 0, connected |-> TRUE,
                   rcvtimeo |-> ProbeRcvtimeo]
    /\ sent' = <<[socket |-> sockets + 1,
                  frames |-> RequestFrames("metadata", <<request'.command>>),
                  rcvtimeo |-> ProbeRcvtimeo]>>
    /\ arrivals' = <<>>
    /\ cmetadata' = NoMetadata
    /\ result' = NoResult
    /\ cpc' = "probe"

\* The probe's receive completes or times out; on success the deadline is
\* set from the metadata and the real request is sent.
Probe ==
    /\ cpc = "probe"
    /\ UNCHANGED <<svars, kvars, dvars, fvars, request, sockets>>
    /\ \E arrival \in Arrivals :
        LET m == metadata_impl(csocket, arrival)
        IN  /\ arrivals' = Append(arrivals, arrival)
            /\ IF m.kind = "raise"
               THEN /\ result' = m
                    /\ csocket' = [csocket EXCEPT !.open = FALSE]
                    /\ cpc' = "done"
                    /\ UNCHANGED <<sent, cmetadata>>
               ELSE /\ cmetadata' = m.value
                    /\ csocket' = [csocket EXCEPT !.rcvtimeo = InvokeRcvtimeo(m.value)]
                    /\ sent' = Append(sent,
                                [socket |-> csocket.id,
                                 frames |-> RequestFrames(request.command, request.arguments),
                                 rcvtimeo |-> InvokeRcvtimeo(m.value)])
                    /\ cpc' = "invoke"
                    /\ UNCHANGED result

\* The real request's receive completes or times out; call() returns or
\* raises, and the with statement closes the socket.
Invoke ==
    /\ cpc = "invoke"
    /\ UNCHANGED <<svars, kvars, dvars, fvars, request, sockets, sent, cmetadata>>
    /\ \E arrival \in Arrivals :
        /\ arrivals' = Append(arrivals, arrival)
        /\ result' = call_impl(csocket, arrival)
    /\ csocket' = [csocket EXCEPT !.open = FALSE]
    /\ cpc' = "done"

\* The caller has the outcome; the client is ready for its next call.
Return ==
    /\ cpc = "done"
    /\ UNCHANGED <<svars, kvars, dvars, fvars, sockets>>
    /\ cpc' = "idle"
    /\ request' = <<>>
    /\ csocket' = NoSocket
    /\ sent' = <<>>
    /\ arrivals' = <<>>
    /\ cmetadata' = NoMetadata
    /\ result' = NoResult

ClientNext ==
    \/ Call
    \/ Probe
    \/ Invoke
    \/ Return

ClientSpec == ClientInit /\ [][ClientNext]_vars

-----------------------------------------------------------------------------
(* Concurrent callers: the socket of each call() *)

\* context.socket(zmq.REQ): a new socket, not connected, with the library's
\* default linger of -1 (wait for ever).
NewSocket(n) ==
    [creator |-> n, open |-> TRUE, linger |-> -1, connected |-> FALSE,
     lingerAtConnect |-> -1, rcvtimeo |-> -1, users |-> {}, usedClosed |-> FALSE,
     outcome |-> ""]

\* A faulty variant of context_socket: one socket is created by the first
\* call and handed to every later call.
context_socket_Shared(tab, n) ==
    IF tab = <<>> THEN [tab |-> <<NewSocket(n)>>, sock |-> 1]
    ELSE [tab |-> [tab EXCEPT ![1].open = TRUE], sock |-> 1]

\* with context.socket(zmq.REQ) as socket: call n gets a socket of its own.
context_socket(tab, n) == [tab |-> Append(tab, NewSocket(n)), sock |-> Len(tab) + 1]

\* socket.linger = 0
SetLinger(tab, i, v) == [tab EXCEPT ![i].linger = v]

\* socket.connect(endpoint)
Connect(tab, i) == [tab EXCEPT ![i].connected = TRUE, ![i].lingerAtConnect = tab[i].linger]

\* socket.rcvtimeo = ...
SetRcvtimeo(tab, i, v) == [tab EXCEPT ![i].rcvtimeo = v]

\* send_multipart or recv_multipart of call n on socket i.
Use(tab, i, n) ==
    [tab EXCEPT ![i].users = tab[i].users \cup {n},
                ![i].usedClosed = tab[i].usedClosed \/ ~tab[i].open]

\* Leaving the with block, by the return or by an exception.
Close(tab, i, how) == [tab EXCEPT ![i].open = FALSE, ![i].outcome = how]

\* The replies the concurrent callers get, one for each way a phase can end.
CallerArrivals ==
    [frames : {<<"OK", Document("echo")>>, <<"OK", Document("slow")>>, <<>>,
               <<"ERROR", ERROR_UNKNOWN_COMMAND, "nope">>},
     latency : {100, 40000}]

\* call() of task t up to the await of the probe's reply.
Start(t) ==
    /\ tasks[t].pc = "idle"
    /\ ncalls < MaxSockets
    /\ UNCHANGED <<svars, cvars, dvars, fvars>>
    /\ ncalls' = ncalls + 1
    /\ LET n == ncalls + 1
           c == context_socket(socktab, n)
           i == c.sock
       IN  /\ socktab' = Use(SetRcvtimeo(Connect(SetLinger(c.tab, i, 0), i),
                                         i, ProbeRcvtimeo), i, n)
           /\ tasks' = [tasks EXCEPT ![t] = [pc |-> "probe", call |-> n, sock |-> i]]

\* The probe of task t ends: the call fails and the socket is closed, or the
\* deadline is set and the real request is sent.
ProbeReply(t) ==
    /\ tasks[t].pc = "probe"
    /\ UNCHANGED <<svars, cvars, dvars, fvars, ncalls>>
    /\ \E arrival \in CallerArrivals :
        LET i == tasks[t].sock
            n == tasks[t].call
            used == Use(socktab, i, n)
            m == metadata_impl(used[i], arrival)
        IN  IF m.kind = "raise"
            THEN /\ socktab' = Close(used, i, m.exc.type)
                 /\ tasks' = [tasks EXCEPT ![t] = IdleTask]
            ELSE /\ socktab' = Use(SetRcvtimeo(used, i, InvokeRcvtimeo(m.value)), i, n)
                 /\ tasks' = [tasks EXCEPT ![t].pc = "invoke"]

\* The real request of task t ends: call() returns or raises, and the socket
\* is closed.
InvokeReply(t) ==
    /\ tasks[t].pc = "invoke"
    /\ UNCHANGED <<svars, cvars, dvars, fvars, ncalls>>
    /\ \E arrival \in CallerArrivals :
        LET i == tasks[t].sock
            n == tasks[t].call
            used == Use(socktab, i, n)
            r == call_impl(used[i], arrival)
        IN  /\ socktab' = Close(used, i, IF r.kind = "raise" THEN r.exc.type ELSE "returned")
            /\ tasks' = [tasks EXCEPT ![t] = IdleTask]

\* Task t is cancelled while it awaits a reply: CancelledError leaves the
\* with block.
Cancel(t) ==
    /\ tasks[t].pc \in {"probe", "invoke"}
    /\ UNCHANGED <<svars, cvars, dvars, fvars, ncalls>>
    /\ socktab' = Close(socktab, tasks[t].sock, "CancelledError")
    /\ tasks' = [tasks EXCEPT ![t] = IdleTask]

CallersNext ==
    \/ \E t \in Tasks : Start(t)
    \/ \E t \in Tasks : ProbeReply(t)
    \/ \E t \in Tasks : InvokeReply(t)
    \/ \E t \in Tasks : Cancel(t)

CallersSpec == ClientInit /\ [][CallersNext]_vars

-----------------------------------------------------------------------------
(* Properties of the service loop *)

Last(seq) == seq[Len(seq)]

Decodable(msg) == \A i \in 1..Len(msg) : msg[i] \notin InvalidUtf8

Sending == pc \in {"send_ok", "send_err"}

\* C1: in Service.run the transport operations alternate, a receive and then
\* exactly one send; a received request leaves the state at SENDING and the
\* loop at the await of an OK or an ERROR send, whatever the dispatch did
\* (success, unknown command, handler exception), unless the loop ended by a
\* fatal error or an interrupt; after the send the state is RECEIVING again.
C1_ReceiveThenOneSend ==
    impl = "Service" =>
        /\ \A i \in 1..Len(ops) : (ops[i] = "recv") <=> (i % 2 = 1)
        /\ \A i \in 1..Len(ops) : (ops[i] = "send") <=> (i % 2 = 0)
        /\ (ops # <<>> /\ Last(ops) = "recv") =>
                /\ state = SENDING
                /\ reply = <<>>
                /\ \/ Sending /\ out[1] \in {"OK", "ERROR"}
                   \/ pc = "stopped" /\ exit = "break"
                   \/ pc = "stopped" /\ exit = "raised" /\ exc.type = "FatalServiceError"
        /\ (ops # <<>> /\ Last(ops) = "send") =>
                /\ state = RECEIVING
                /\ reply[1] \in {"OK", "ERROR"}
                /\ pc \in {"recv", "stopped"}

C1_Witness ==
    /\ impl = "Service"
    /\ ops = <<"recv", "send", "recv", "send">>
    /\ reply = <<"ERROR", ERROR_UNKNOWN_COMMAND, "nope">>
    /\ state = RECEIVING
    /\ pc = "recv"

\* C2: every message the service sends is [OK, ...] or a three-frame
\* [ERROR, code, message] whose code is ERROR_UNKNOWN_COMMAND or
\* ERROR_UNCATEGORISED.
WellFormedReply(frames) ==
    \/ Len(frames) >= 1 /\ frames[1] = "OK"
    \/ Len(frames) = 3 /\ frames[1] = "ERROR" /\ frames[2] \in ErrorCode

C3_UnknownCommandReply ==
    (Sending /\ Decodable(message) /\ ~HasKey(command_map, message[1])) =>
        /\ pc = "send_err"
        /\ out = <<"ERROR", ERROR_UNKNOWN_COMMAND, message[1]>>
        /\ invoked = ""

\* C4: a handler exception that is neither a ServiceException nor fatal is
\* answered with [ERROR, ERROR_UNCATEGORISED, text], the text holding the
\* exception's class name and its str(); the send of that reply leaves the
\* state at RECEIVING and the loop, still running, at its receive.
PlainExceptions ==
    {"RuntimeError", "ValueError", "TypeError", "NotImplementedError"}

C4_Text(e) == "builtins." \o e.type \o ": " \o e.msg

C4_HandlerException ==
    /\ []((invoked # "" /\ exc.type \in PlainExceptions) =>
            /\ pc = "send_err"
            /\ state = SENDING
            /\ out = <<"ERROR", ERROR_UNCATEGORISED, C4_Text(exc)>>)
    /\ [][(pc = "send_err" /\ pc' # "send_err") =>
            /\ reply' = out
            /\ ops' = Append(ops, "send")
            /\ state' = RECEIVING
            /\ pc' = "recv"
            /\ exit' = "running"]_vars

C4_Witness ==
    /\ reply = <<"ERROR", ERROR_UNCATEGORISED, "builtins.RuntimeError: kaboom">>
    /\ state = RECEIVING
    /\ pc = "recv"
    /\ exit = "running"
    /\ Received < MaxRequests

\* C5: when a handler raises FatalServiceError, Service.run sends no reply
\* for that request, the error leaves run, and the loop takes no further
\* step: its last transport operation is the receive of that request.
C5_FatalStopsLoop ==
    /\ [](impl = "Service" =>
            /\ (invoked # "" /\ exc.type = "FatalServiceError") =>
                    /\ pc = "stopped"
                    /\ exit = "raised"
                    /\ reply = <<>>
                    /\ Last(ops) = "recv"
            /\ exit = "raised" => (pc = "stopped" /\ exc.type = "FatalServiceError"))
    /\ [][exit # "raised"]_vars

C5_Witness ==
    /\ impl = "Service"
    /\ message = <<"fatal">>
    /\ invoked = "fatal"
    /\ exit = "raised"
    /\ ops = <<"recv", "send", "recv">>

-----------------------------------------------------------------------------
(* Properties of the client call *)

DocumentedCommands == {"echo", "slow", "boom"}

ValidDocuments == {Document(n) : n \in DocumentedCommands}

\* The reply to the i-th request arrived before the deadline of its receive.
InTime(i) == arrivals[i].latency <= sent[i].rcvtimeo

\* A probe reply that gives the client a Metadata: in time, OK, a first
\* document that decodes, every frame UTF-8.
ProbeSucceeds(arrival) ==
    /\ arrival.latency <= 300
    /\ Len(arrival.frames) >= 2
    /\ arrival.frames[1] = "OK"
    /\ arrival.frames[2] \in ValidDocuments
    /\ Decodable(arrival.frames)

\* C6: a call to a command other than metadata first sends metadata(c) with
\* a receive deadline of 300 ms; the real request (c, arguments) is sent on
\* the same socket only after the probe reply was decoded, with the deadline
\* set to the timeout of the decoded metadata (300 or 30000).
C6_ProbeThenInvoke ==
    (cpc # "idle" /\ request.command # "metadata") =>
        /\ Len(sent) \in {1, 2}
        /\ sent[1] = [socket |-> csocket.id,
                      frames |-> <<"metadata", request.command>>,
                      rcvtimeo |-> 300]
        /\ cpc = "probe" => (Len(sent) = 1 /\ arrivals = <<>> /\ csocket.rcvtimeo = 300)
        /\ cpc = "invoke" => (Len(sent) = 2 /\ Len(arrivals) = 1
                                /\ csocket.rcvtimeo = sent[2].rcvtimeo)
        /\ Len(sent) = 2 =>
                /\ Len(arrivals) >= 1
                /\ arrivals[1].latency <= 300
                /\ arrivals[1].frames[1] = "OK"
                /\ \E n \in DocumentedCommands :
                        /\ arrivals[1].frames[2] = Document(n)
                        /\ cmetadata = MetadataOf(n)
                        /\ sent[2].rcvtimeo = MetadataOf(n).timeout
                /\ sent[2].rcvtimeo \in {300, 30000}
                /\ sent[2].frames = <<request.command>> \o request.arguments
                /\ sent[2].socket = sent[1].socket

C6_Witness ==
    /\ cpc = "invoke"
    /\ request = [command |-> "slow", arguments |-> <<"a", "b">>]
    /\ arrivals[1].frames = <<"OK", Document("slow")>>
    /\ sent[2] = [socket |-> 1, frames |-> <<"slow", "a", "b">>, rcvtimeo |-> 30000]
    /\ csocket.rcvtimeo = 30000

\* C7: when the probe fails (error reply, malformed reply, undecodable
\* document, timeout) the call ends with that failure, UnknownCommand for
\* an ERROR_UNKNOWN_COMMAND reply, and the probe is the only request sent.
C7_ProbeFailureEndsCall ==
    (Len(arrivals) >= 1 /\ ~ProbeSucceeds(arrivals[1])) =>
        /\ cpc = "done"
        /\ Len(arrivals) = 1
        /\ Len(sent) = 1
        /\ sent[1].frames = <<"metadata", request.command>>
        /\ result.kind = "raise"
        /\ ~csocket.open
        /\ arrivals[1].latency > 300 => result.exc.type = "TimeoutException"
        /\ (arrivals[1].latency <= 300 /\ Len(arrivals[1].frames) = 3
                /\ arrivals[1].frames[1] = "ERROR"
                /\ arrivals[1].frames[2] = ERROR_UNKNOWN_COMMAND) =>
                    /\ result.exc.type = "UnknownCommandException"
                    /\ result.exc.msg = "unknown command " \o arrivals[1].frames[3]

C7_Witness ==
    /\ cpc = "done"
    /\ request.command = "nope"
    /\ arrivals = <<[frames |-> <<"ERROR", ERROR_UNKNOWN_COMMAND, "nope">>, latency |-> 100]>>
    /\ sent = <<[socket |-> 1, frames |-> <<"metadata", "nope">>, rcvtimeo |-> 300]>>
    /\ result.exc.type = "UnknownCommandException"

\* C8: a reply with zero frames, a reply whose first frame is neither OK nor
\* ERROR, and an ERROR reply that has not exactly three frames each end the
\* call with a ProtocolException, in the probe and in the invoke phase.
MalformedReply(frames) ==
    \/ Len(frames) = 0
    \/ Len(frames) > 0 /\ frames[1] \notin {"OK", "ERROR"}
    \/ Len(frames) > 0 /\ frames[1] = "ERROR" /\ Len(frames) # 3

C8_MalformedReplyIsProtocolError ==
    \A i \in 1..Len(arrivals) :
        (InTime(i) /\ MalformedReply(arrivals[i].frames)) =>
            /\ i = Len(arrivals)
            /\ cpc = "done"
            /\ result.kind = "raise"
            /\ result.exc.type = "ProtocolException"

C8_Witness ==
    /\ cpc = "done"
    /\ Len(arrivals) = 2
    /\ arrivals[2] = [frames |-> <<"ERROR", "X">>, latency |-> 100]
    /\ result.exc = ProtocolException("invalid error response")

\* C9: when the receive deadline elapses before the reply arrives, in the
\* probe phase (300 ms) or in the invoke phase (the metadata's timeout),
\* the call raises TimeoutException and returns no value.
C9_DeadlineElapsed ==
    \A i \in 1..Len(arrivals) :
        (arrivals[i].latency > (IF i = 1 THEN 300 ELSE cmetadata.timeout)) =>
            /\ i = Len(arrivals)
            /\ cpc = "done"
            /\ result.kind = "raise"
            /\ result.exc.type = "TimeoutException"
            /\ result.value = <<>>

C9_Witness ==
    /\ cpc = "done"
    /\ Len(arrivals) = 2
    /\ arrivals[2].latency = 40000
    /\ sent[2].rcvtimeo = 30000
    /\ result.exc = Exc("TimeoutException", "no response from service after 30000 ms")

\* C10: a probe reply that is OK with no document frame, or whose document
\* does not decode into a Metadata (not JSON, a missing key, a timeout other
\* than 300 and 30000, an unknown arguments type), ends the call with a
\* ProtocolException.
C10_BadProbeDocumentIsProtocolError ==
    (/\ Len(arrivals) >= 1
     /\ arrivals[1].latency <= 300
     /\ Len(arrivals[1].frames) >= 1
     /\ arrivals[1].frames[1] = "OK"
     /\ Decodable(arrivals[1].frames)
     /\ (Len(arrivals[1].frames) = 1 \/ arrivals[1].frames[2] \notin ValidDocuments)) =>
        /\ cpc = "done"
        /\ result.kind = "raise"
        /\ result.exc.type = "ProtocolException"

\* C11: a three-frame ERROR reply that arrives in time and decodes makes the
\* call raise UnknownCommandException (built from the message frame) when
\* the code frame is ERROR_UNKNOWN_COMMAND, and otherwise a ServiceException
\* whose error_code and reason are the received code and message frames.
C11_ErrorReplyToException ==
    \A i \in 1..Len(arrivals) :
        LET frames == arrivals[i].frames
        IN  (InTime(i) /\ Len(frames) = 3 /\ frames[1] = "ERROR" /\ Decodable(frames)) =>
                /\ i = Len(arrivals)
                /\ cpc = "done"
                /\ result.kind = "raise"
                /\ IF frames[2] = ERROR_UNKNOWN_COMMAND
                   THEN result.exc = LegacyUnknownCommand(frames[3])
                   ELSE /\ result.exc.type = "ServiceException"
                        /\ result.exc.code = frames[2]
                        /\ result.exc.msg = frames[3]

C11_Witness ==
    /\ cpc = "done"
    /\ Len(arrivals) = 2
    /\ arrivals[2] = [frames |-> <<"ERROR", "ERROR_CUSTOM", "m">>, latency |-> 1000]
    /\ sent[2].rcvtimeo = 30000
    /\ result.exc = ClientServiceException("ERROR_CUSTOM", "m")

-----------------------------------------------------------------------------
(* Properties of concurrent callers *)

Pending(t) == tasks[t].pc # "idle"

\* C12: every call creates a socket of its own and sets linger to 0 before
\* it connects; no socket is used by a call other than its creator, whether
\* the calls follow one another or overlap; a socket is open exactly while
\* its call is pending, and nothing is sent or received on a closed socket.
C12_OneSocketPerCall ==
    /\ Len(socktab) = ncalls
    /\ \A n \in 1..ncalls : Cardinality({i \in 1..Len(socktab) : socktab[i].creator = n}) = 1
    /\ \A i \in 1..Len(socktab) :
        /\ socktab[i].linger = 0
        /\ socktab[i].connected
        /\ socktab[i].lingerAtConnect = 0
        /\ socktab[i].users = {socktab[i].creator}
        /\ ~socktab[i].usedClosed
        /\ socktab[i].open <=> \E t \in Tasks : Pending(t) /\ tasks[t].call = socktab[i].creator
    /\ \A t \in Tasks : Pending(t) =>
        /\ socktab[tasks[t].sock].creator = tasks[t].call
        /\ socktab[tasks[t].sock].open
    /\ \A t, u \in Tasks : (t # u /\ Pending(t) /\ Pending(u)) => tasks[t].sock # tasks[u].sock

C12_Witness ==
    /\ Len(socktab) = 3
    /\ ~socktab[1].open /\ socktab[1].outcome = "TimeoutException"
    /\ tasks[1] = [pc |-> "invoke", call |-> 3, sock |-> 3]
    /\ tasks[2] = [pc |-> "probe", call |-> 2, sock |-> 2]

-----------------------------------------------------------------------------
(* Properties of the built-in commands *)

\* C13: a metadata request with no argument frame is answered, by either
\* loop, with [ERROR, ERROR_UNCATEGORISED, text], the text containing
\* 'Expected one or more commands'; no OK reply is built for it.
C13_Phrase == "Expected one or more commands"

C13_MetadataWithoutNames ==
    /\ [](message = <<"metadata">> =>
            /\ pc = "send_err"
            /\ invoked = "metadata"
            /\ Len(out) = 3
            /\ out[1] = "ERROR"
            /\ out[2] = ERROR_UNCATEGORISED
            /\ \E before \in {"builtins.ValueError: "}, after \in {" as arguments"} :
                    out[3] = before \o C13_Phrase \o after)
    /\ [][(message = <<"metadata">> /\ message' # message) =>
            /\ reply' = out
            /\ reply'[1] = "ERROR"
            /\ ops' = Append(ops, "send")]_vars

C13_Witness ==
    /\ impl = "service_main"
    /\ ops = <<"recv", "send">>
    /\ reply = <<"ERROR", ERROR_UNCATEGORISED,
                 "builtins.ValueError: Expected one or more commands as arguments">>

\* C14: a metadata request in which the first name that fails its lookup is
\* an unregistered one is answered with the single reply
\* [ERROR, ERROR_UNKNOWN_COMMAND, name], name being that first unknown
\* requested name; no document of the known names is sent.
FirstUnknown(cmap, names) ==
    CHOOSE i \in 1..Len(names) :
        /\ ~HasKey(cmap, names[i])
        /\ \A j \in 1..(i - 1) : HasKey(cmap, names[j])

C14_UnknownNameInMetadata ==
    [][(/\ pc = "recv"
        /\ message' # message
        /\ Len(message') >= 2
        /\ message'[1] = "metadata"
        /\ Decodable(message')
        /\ \E i \in 2..Len(message') : ~HasKey(command_map, message'[i])
        /\ \A i \in 2..Len(message') :
                HasKey(command_map, message'[i]) =>
                    IsMetadata(Get(command_map, message'[i]).metadata)) =>
            /\ pc' = "send_err"
            /\ out' = <<"ERROR", ERROR_UNKNOWN_COMMAND,
                        Tail(message')[FirstUnknown(command_map, Tail(message'))]>>]_vars

\* C15: a metadata request whose n >= 1 names are all registered with a
\* Metadata is answered with OK and exactly n documents, the i-th being the
\* serialized metadata the registry holds for the i-th name at that moment;
\* the client's decoding of the reply has the first name's metadata at
\* index 0.
C15_Names == Tail(message)

C15_OneDocumentPerName ==
    [][(/\ pc = "recv"
        /\ message' # message
        /\ Len(message') >= 2
        /\ message'[1] = "metadata"
        /\ Decodable(message')
        /\ \A i \in 2..Len(message') :
                /\ HasKey(command_map, message'[i])
                /\ IsMetadata(Get(command_map, message'[i]).metadata)) =>
            /\ pc' = "send_ok"
            /\ invoked' = "metadata"
            /\ Len(out') = Len(message')
            /\ out'[1] = "OK"
            /\ \A i \in 2..Len(message') :
                    out'[i] = MetadataDocument(impl, Get(command_map, message'[i]).metadata)
            /\ impl = "Service" =>
                    LET response == DecodeResponse(out')
                    IN  /\ response.kind = "ok"
                        /\ Len(response.value) = Len(message') - 1
                        /\ json_loads(response.value[1]).kind = "ok"
                        /\ Metadata_from_dictionary(json_loads(response.value[1]).value)
                                = Ok(Get(command_map, message'[2]).metadata)]_vars

C15_Witness ==
    /\ impl = "Service"
    /\ pc = "send_ok"
    /\ C15_Names = <<"metadata", "help">>
    /\ out = <<"OK",
               json_dumps(Metadata_to_dictionary(Get(RegisterCommonCommands, "metadata").metadata)),
               json_dumps(Metadata_to_dictionary(Get(RegisterCommonCommands, "help").metadata))>>

-----------------------------------------------------------------------------
(* Properties of the metadata documents *)

\* C16: from_dictionary(x.to_dictionary()) = x for every Metadata x, with
\* either timeout and any of the three shapes of arguments, and for every
\* Arguments x of each shape.
C16_RoundTrip ==
    (subject # Nothing /\ decoded # NoResult) =>
        /\ decoded.kind = "ok"
        /\ decoded.value = subject.value

C16_Witness ==
    /\ subject.kind = "Metadata"
    /\ subject.value.timeout = LONG
    /\ subject.value.arguments = Arguments(<<Argument("n", "a number"), Argument("x", "any")>>)
    /\ encoded.kind = "dict"
    /\ decoded.kind = "ok"
    /\ decoded.value = subject.value

\* C17: from_dictionary gives no value, it raises, for a Metadata dictionary
\* whose timeout is an integer other than 300 and 30000 or whose
\* arguments.type is not none, variable_length or list, and for an Arguments
\* dictionary with such a type.
C17_KnownTags == {"none", "variable_length", "list"}

C17_DecodeRejects ==
    (encoded # Nothing /\ decoded # NoResult) =>
        /\ (encoded.of = "Metadata" /\ encoded.value.timeout \notin {300, 30000}) =>
                decoded.kind = "raise"
        /\ (encoded.of = "Metadata" /\ encoded.value.arguments.type \notin C17_KnownTags) =>
                decoded.kind = "raise"
        /\ (encoded.of = "Arguments" /\ encoded.value.type \notin C17_KnownTags) =>
                decoded.kind = "raise"

C17_Witness ==
    /\ subject = Nothing
    /\ encoded.of = "Metadata"
    /\ encoded.value.timeout = 301
    /\ encoded.value.arguments = [type |-> "none"]
    /\ decoded = Raise(Exc("ValueError", "301 is not a valid Timeout"))

-----------------------------------------------------------------------------
(* Properties of the registry *)

NoDuplicates(seq) == \A i, j \in 1..Len(seq) : seq[i] = seq[j] => i = j

\* C18: whatever was registered, every name is in the registry once, in the
\* order of first insertion: a register_command of a new name appends it, one
\* of a present name replaces handler and metadata in place; list answers
\* with exactly these names in this order.
C18_ListOfNames ==
    /\ [](NoDuplicates(Keys(command_map)))
    /\ [][(registrations' # registrations) =>
            \E e \in (IF impl = "Service" THEN UserEntries ELSE LegacyUserEntries) :
                /\ HasKey(command_map', e.name)
                /\ Get(command_map', e.name) = e
                /\ Keys(command_map') = IF HasKey(command_map, e.name)
                                        THEN Keys(command_map)
                                        ELSE Append(Keys(command_map), e.name)
                /\ \A i \in 1..Len(command_map) :
                        command_map[i].name # e.name => command_map'[i] = command_map[i]]_vars
    /\ [][(impl = "Service" /\ pc = "recv" /\ message' # message
                /\ Decodable(message') /\ message'[1] = "list") =>
            /\ pc' = "send_ok"
            /\ out' = <<"OK">> \o Keys(command_map)]_vars

C18_Witness ==
    /\ impl = "Service"
    /\ registrations = 1
    /\ Get(command_map, "describe").handler = "echo"
    /\ Get(command_map, "describe").metadata.timeout = LONG
    /\ reply = <<"OK", "describe", "list", "help", "metadata">>

\* C19: a service that was constructed and has had no command registered
\* answers a list request with [OK, describe, list, help, metadata].
C19_BuiltInNames == <<"describe", "list", "help", "metadata">>

C19_FreshList ==
    [][(registrations = 0 /\ pc = "recv" /\ message' = <<"list">>) =>
            /\ pc' = "send_ok"
            /\ out' = <<"OK">> \o C19_BuiltInNames]_vars

-----------------------------------------------------------------------------
(* Properties of the loop's end and of its scheduling *)

\* C21: once Service.run has stopped, by an interrupt or by a fatal error
\* that leaves it, the socket bound at its entry is closed.
C21_SocketReleased ==
    (impl = "Service" /\ pc = "stopped" /\ exit \in {"break", "raised"}) =>
        socket = "closed"

\* C22: a request for a command whose handler is a coroutine function is
\* answered with OK and the list the handler returns (async_echo returns its
\* arguments), the loop having waited for the handler before the send.
C22_AsyncHandlerAwaited ==
    [][(/\ impl = "Service"
        /\ pc = "recv"
        /\ message' # message
        /\ Decodable(message')
        /\ HasKey(command_map, message'[1])
        /\ Get(command_map, message'[1]).handler = "async_echo") =>
            /\ pc' = "send_ok"
            /\ out' = <<"OK">> \o Tail(message')]_vars

-----------------------------------------------------------------------------
(* Further properties of the client call *)

\* C23: a call to the metadata command sends one request only, metadata
\* with the caller's arguments; no probe goes before it.
C23_MetadataCallSinglePhase ==
    (cpc # "idle" /\ request.command = "metadata") =>
        /\ Len(sent) = 1
        /\ sent[1].frames = <<"metadata">> \o request.arguments

-----------------------------------------------------------------------------
(* Properties of the loop's state checks and of failing transport operations *)

\* C25: when an except clause has an error to report and the state is not
\* SENDING (the receive itself raised, so the state is still RECEIVING), no
\* frame is sent, the state is left as it was, the state is printed to
\* stderr and the loop goes on: it is at its receive again and has not ended.
C25_ErrorOutsideSendingLogged ==
    [][(/\ state # SENDING
        /\ \/ pc = "send_err"
           \/ pc = "recv" /\ faults' # faults) =>
            /\ ops' = ops
            /\ reply' = reply
            /\ state' = state
            /\ stderr' = Append(stderr, state)
            /\ pc' = "recv"
            /\ exit' = exit]_vars

C25_Witness ==
    /\ impl = "Service"
    /\ faults = 1
    /\ stderr = <<RECEIVING>>
    /\ ops = <<"recv">>
    /\ pc = "send_ok"

\* C26: while Service.run executes, the registry changes only in steps where
\* the loop is suspended at its receive or at a send (or has not started) and
\* the loop itself does not move; the step that looks a request's command up
\* and runs its handler leaves the registry as it is, so the result the
\* handler produced is the one the registry after the step gives.
C26_RegistrySerialised ==
    [][impl = "Service" =>
        /\ command_map' # command_map =>
                /\ pc \in {"idle", "recv", "send_ok", "send_err"}
                /\ UNCHANGED <<pc, state, message, exc, invoked, out, reply, ops>>
        /\ (pc = "recv" /\ message' # message) =>
                /\ command_map' = command_map
                /\ LET r == TryBody(impl, command_map', overridden', message', SENDING)
                   IN  /\ invoked' = r.called
                       /\ exc' = r.exc
                       /\ r.kind = "ok" => out' = r.value]_vars

C26_Witness ==
    /\ impl = "Service"
    /\ pc = "send_ok"
    /\ invoked = "list"
    /\ registrations = 1
    /\ out = <<"OK", "describe", "list", "help", "metadata">>
    /\ Len(command_map) = 5

\* C27: at the top of every iteration (the loop is at its receive) the state
\* is RECEIVING, and where the success reply is about to be sent the state is
\* SENDING; no StateException is raised and the process never ends by exit(1).
C27_StateChecksNeverFail ==
    /\ pc = "recv" => state = RECEIVING
    /\ pc = "send_ok" => state = SENDING
    /\ exc.type # "StateException"
    /\ exit # "exit1"

C27_Witness ==
    /\ pc = "recv"
    /\ state = RECEIVING
    /\ ops = <<"recv", "send", "recv", "send">>
    /\ faults = MaxFaults

\* C28: when the send of an error reply raises, the exception leaves run:
\* the loop has stopped, nothing was sent for the request, the state is still
\* SENDING, and no transport operation follows.
C28_ErrorSendFailurePropagates ==
    [][/\ (pc = "send_err" /\ faults' # faults) =>
            /\ pc' = "stopped"
            /\ exit' = "raised"
            /\ state' = SENDING
            /\ reply' = <<>>
            /\ ops' = ops
       /\ pc = "stopped" => (pc' = "stopped" /\ ops' = ops /\ reply' = reply)]_vars

C28_Witness ==
    /\ impl = "Service"
    /\ pc = "stopped"
    /\ exit = "raised"
    /\ exc = ZMQError
    /\ state = SENDING
    /\ reply = <<>>
    /\ ops[Len(ops)] = "recv"

====
